---- MODULE Spec2Model ----
(***************************************************************************)
(* The Queue abstraction of be-libs (packages/queue, sqs-queue-v2/v3):     *)
(* the polling loop Queue.start with stop/resume/send, bound to the        *)
(* in-memory backend (MemoryQueue) and to the SQS backends.                *)
(*                                                                         *)
(* JavaScript runs one callback to its next `await`; every action below is *)
(* one such run-to-await segment of one call of start (a "loop"), or one   *)
(* synchronous call of the Queue's public methods.  A loop's pc names the  *)
(* await it is suspended at.                                               *)
(***************************************************************************)
EXTENDS Naturals, Sequences, FiniteSets, TLC

VARIABLES
    backend,     \* "memory" (MemoryQueue) or "sqs" (sqs-queue-v3 / v2)
    forever,     \* Queue.forever, the running flag
    loops,       \* the calls of start made so far, by number
    nLoops,      \* how many calls of start/resume were made
    messages,    \* MemoryQueue.messages
    nextId,      \* identity of the next object pushed by sendMessage
    dispatched,  \* history: per message, callback invocations (saturates at 2)
    removed,     \* history: per message, whether messages.shift() took it
    phase,       \* how far the scripted scenario of SpecCycles has come
    events,      \* the calls made by the last step, in order
    now,         \* the wall clock that new Date() reads
    sent,        \* history: the calls of send, with the object each one built
    sendPromises, \* sqs: the promises of the calls of sendMessage, in call order
    record,      \* what the recording callback of the scenarios has recorded
    sse,         \* fastify-zod-reply: one call of createSSEStream
    env,         \* one-env: the loaders, the global instance, the env objects
    mq           \* pino-mongodb: one createMessageQueue and the writes it started

\* what the loops leave alone
sendVars == <<now, sent, sendPromises, record>>

\* the state of the other packages, which a Queue never touches
libVars == <<sse, env, mq>>

vars == <<backend, forever, loops, nLoops, messages, nextId, dispatched,
          removed, phase, events, now, sent, sendPromises, record, sse, env, mq>>

-----------------------------------------------------------------------------
(* Bounds of the model *)

\* calls of start/resume on a MemoryQueue
MaxLoops == 2
\* calls of start/resume on an SQS queue
MaxSqsLoops == 2
\* calls of send on a MemoryQueue
MaxMsgs == 2
\* messages in one SQS receive response to the first call of start
MaxBatch == 2
\* messages in one SQS receive response to a later call of start or resume
MaxLaterBatch == 1
\* ticks of the wall clock
MaxClock == 2
\* items that the source generator of an SSE stream yields
MaxItems == 2
\* keep-alive timeouts that fire during one SSE stream
MaxKeepAlives == 2
\* calls of push on one message queue of the log transport
MaxPushes == 3
\* largest maxMessages option given to createMessageQueue
MaxBatchSize == 2

-----------------------------------------------------------------------------
(* Values *)

Absent == "undefined"

\* MemoryQueue: a message is the object pushed by sendMessage, named by an id
MsgIds == 1..MaxMsgs
NoMsg == 0

\* SQS: a received message is {ReceiptHandle, Body}; the service gives every
\* message of a response a receipt handle of its own, or (malformed) none
HandleNames == <<"h1", "h2", "h3", "h4">>
EnvelopeBody == "{\"name\":\"a\",\"params\":{\"x\":1}}"
Bodies == {Absent, "", "{}", EnvelopeBody, "not json"}
SqsMessagesAt(i) == [ReceiptHandle : {Absent, HandleNames[i]}, Body : Bodies]

RECURSIVE BatchesOfLen(_)
BatchesOfLen(n) ==
    IF n = 0 THEN {<<>>}
    ELSE {Append(s, x) : s \in BatchesOfLen(n - 1), x \in SqsMessagesAt(n)}

\* what one ReceiveMessageCommand can answer with in Messages
SqsBatches == UNION {BatchesOfLen(n) : n \in 0..MaxBatch}

\* the answers explored for the l-th call of start or resume
SqsBatchesOf(l) ==
    {Messages \in SqsBatches : Len(Messages) <= IF l = 1 THEN MaxBatch ELSE MaxLaterBatch}

\* the envelopes {name, params} given to send: params is an object with any of
\* the keys x and createdAt; dates are readings of the wall clock, and a
\* createdAt of the caller's is one that no send of the model happens at
CallerDate == MaxClock + 1
ParamKeys == {"x", "createdAt"}
Params == {[k \in K |-> IF k = "createdAt" THEN CallerDate ELSE 1] : K \in SUBSET ParamKeys}
Envelopes == [name : {"a", "b"}, params : Params]

\* {name: "a", params: {x: 1}}
SeedEnvelope == [name |-> "a", params |-> [k \in {"x"} |-> 1]]

\* the promise of a call of sendMessage; state is "pending", "fulfilled" or
\* "rejected", handled tells whether a reaction (await, then, catch) is attached
NewPromise == [state |-> "pending", handled |-> FALSE]

\* errors, by class
NO_RECEIPT_HANDLE == "NO_RECEIPT_HANDLE"
EMPTY_BODY == "EMPTY_BODY"
SyntaxError == "SyntaxError"
CallbackError == "CallbackError"
TransportError == "TransportError"
CanReadError == "CanReadError"
ErrorCallbackError == "ErrorCallbackError"
NoError == "none"

-----------------------------------------------------------------------------
(* One activation of processMessage, and one call of start *)

\*   msg       the message it was called with
\*   callback  "none", "invoked", "returned" or "threw"
\*   del       state.del
\*   dels      the delete calls it issued (sqs: the receipt handles; memory: the
\*             elements that messages.shift() took, NoMsg for none)
\*   deleted   the transport acknowledged the delete
\*   status    "running", "returned" or "raised", and the error raised
\*   after     sqs: which of the three delete calls is awaited
NoProc == [msg |-> NoMsg, callback |-> "none", del |-> TRUE, dels |-> <<>>,
           deleted |-> FALSE, status |-> "none", error |-> NoError, after |-> "none"]

NewProc(m) == [NoProc EXCEPT !.msg = m, !.status = "running"]

\*   pc        the await the call is suspended at ("done": returned, "thrown")
\*   res       what readMessages settled with: "undefined", "batch" or "error"
\*   batch     const messages
\*   procs     the calls of processMessage made for this batch, in order
\*   err       the error caught by, or thrown out of, start
\*   ended     once done: how the last iteration ended
IdleLoop == [pc |-> "idle", canThrow |-> FALSE, res |-> "none",
             batch |-> <<>>, procs |-> <<>>, err |-> NoError, ended |-> "none"]

\* the activation of processMessage a loop started last
CurProc(lp) == lp.procs[Len(lp.procs)]

SetCur(lp, p) == [lp EXCEPT !.procs[Len(lp.procs)] = p]

Emit(c, e) == [c EXCEPT !.ev = Append(@, e)]

Min(a, b) == IF a < b THEN a ELSE b

-----------------------------------------------------------------------------
(* JSON.parse and Object.keys, on the bodies of the model *)

\* JSON.parse(stringifiedBody): the parsed value, or a SyntaxError
JSONparse(body) ==
    IF body = "{}" THEN [ok |-> TRUE, keys |-> {}]
    ELSE IF body = EnvelopeBody THEN [ok |-> TRUE, keys |-> {"name", "params"}]
    ELSE [ok |-> FALSE, keys |-> {}]

\* !x of JavaScript for a string or undefined
Falsy(x) == x = Absent \/ x = ""

-----------------------------------------------------------------------------
(* Backends: readMessages up to its first await *)

\* (variant: the head taken off the list by the read, this.messages.shift())
readMessagesMemory_shift(c) ==
    LET c1 == Emit(c, [e |-> "readMessages", l |-> c.l])
    IN  IF Len(c1.messages) = 0
        THEN [c1 EXCEPT !.lp.pc = "readSleep"]
        ELSE [c1 EXCEPT !.lp.pc = "readDone", !.lp.res = "batch",
                        !.lp.batch = <<c1.messages[1]>>,
                        !.removed[c1.messages[1]] = TRUE,
                        !.messages = Tail(@)]

\* MemoryQueue.readMessages
readMessagesMemory(c) ==
    LET c1 == Emit(c, [e |-> "readMessages", l |-> c.l])
    IN  IF Len(c1.messages) = 0
        THEN [c1 EXCEPT !.lp.pc = "readSleep"]
        ELSE [c1 EXCEPT !.lp.pc = "readDone", !.lp.res = "batch",
                        !.lp.batch = <<c1.messages[1]>>]

\* sqs Queue.readMessages: await this.canRead()
readMessagesSqs(c) ==
    LET c1 == Emit(c, [e |-> "readMessages", l |-> c.l])
    IN  [c1 EXCEPT !.lp.pc = "canRead"]

readMessages(c) ==
    IF c.backend = "memory" THEN readMessagesMemory(c) ELSE readMessagesSqs(c)

-----------------------------------------------------------------------------
(* Backends: processMessage up to its first await *)

\* callback(name, params, state) is invoked
InvokeCallback(c, m) ==
    LET c1 == Emit(c, [e |-> "callback", l |-> c.l, m |-> m])
        p  == CurProc(c1.lp)
    IN  [c1 EXCEPT !.lp = SetCur(c1.lp, [p EXCEPT !.callback = "invoked"]),
                   !.lp.pc = "inCallback",
                   !.dispatched = IF c.backend = "memory"
                                  THEN [@ EXCEPT ![m] = Min(@ + 1, 2)] ELSE @]

\* processMessage settles: returns, or raises error
Settle(c, status, error) ==
    LET p == CurProc(c.lp)
    IN  [c EXCEPT !.lp = SetCur(c.lp, [p EXCEPT !.status = status, !.error = error]),
                  !.lp.pc = "procDone"]

\* sqs Queue.delete(ReceiptHandle): the DeleteMessageCommand is sent
delete(c, ReceiptHandle, after) ==
    LET c1 == Emit(c, [e |-> "delete", l |-> c.l, h |-> ReceiptHandle])
        p  == CurProc(c1.lp)
    IN  [c1 EXCEPT !.lp = SetCur(c1.lp, [p EXCEPT !.dels = Append(p.dels, ReceiptHandle),
                                                  !.after = after]),
                   !.lp.pc = "inDelete"]

\* (variants of processMessageSqs with a plausible slip, used to show that the
\* properties below depend on it)
\* EMPTY_BODY raised without the delete
processMessageSqs_noDelete(c, message, hasCallback) ==
    IF Falsy(message.ReceiptHandle) THEN Settle(c, "raised", NO_RECEIPT_HANDLE)
    ELSE IF Falsy(message.Body) THEN Settle(c, "raised", EMPTY_BODY)
    ELSE LET parsedBody == JSONparse(message.Body)
         IN  IF ~parsedBody.ok THEN Settle(c, "raised", SyntaxError)
             ELSE IF Cardinality(parsedBody.keys) = 0
                  THEN delete(c, message.ReceiptHandle, "BODY_NO_KEYS")
             ELSE IF ~hasCallback THEN Settle(c, "returned", NoError)
             ELSE InvokeCallback(c, message)

\* the body looked at before the receipt handle
processMessageSqs_bodyFirst(c, message, hasCallback) ==
    IF Falsy(message.Body) THEN delete(c, message.ReceiptHandle, EMPTY_BODY)
    ELSE IF Falsy(message.ReceiptHandle) THEN Settle(c, "raised", NO_RECEIPT_HANDLE)
    ELSE LET parsedBody == JSONparse(message.Body)
         IN  IF ~parsedBody.ok THEN Settle(c, "raised", SyntaxError)
             ELSE IF Cardinality(parsedBody.keys) = 0
                  THEN delete(c, message.ReceiptHandle, "BODY_NO_KEYS")
             ELSE IF ~hasCallback THEN Settle(c, "returned", NoError)
             ELSE InvokeCallback(c, message)

\* MemoryQueue.processMessage
processMessageMemory(c, message, hasCallback) ==
    IF ~hasCallback THEN Settle(c, "returned", NoError)
    ELSE InvokeCallback(c, message)

\* sqs Queue.processMessage
processMessageSqs(c, message, hasCallback) ==
    IF Falsy(message.ReceiptHandle) THEN Settle(c, "raised", NO_RECEIPT_HANDLE)
    ELSE IF Falsy(message.Body) THEN delete(c, message.ReceiptHandle, EMPTY_BODY)
    ELSE LET parsedBody == JSONparse(message.Body)
         IN  IF ~parsedBody.ok THEN Settle(c, "raised", SyntaxError)
             ELSE IF Cardinality(parsedBody.keys) = 0
                  THEN delete(c, message.ReceiptHandle, "BODY_NO_KEYS")
             ELSE IF ~hasCallback THEN Settle(c, "returned", NoError)
             ELSE InvokeCallback(c, message)

processMessage(c, message) ==
    LET c1 == [c EXCEPT !.lp.procs = Append(@, NewProc(message))]
    IN  IF c.backend = "memory"
        THEN processMessageMemory(c1, message, TRUE)
        ELSE processMessageSqs(c1, message, TRUE)

\* (variant: state.del read the wrong way round, nothing shifted when it is true)
afterCallbackMemory_inverted(c) ==
    LET p == CurProc(c.lp)
    IN  IF ~p.del
        THEN LET head == IF Len(c.messages) = 0 THEN NoMsg ELSE c.messages[1]
                 c1 == Emit(c, [e |-> "shift", l |-> c.l, m |-> head])
                 c2 == [c1 EXCEPT !.lp = SetCur(c1.lp, [p EXCEPT !.dels = Append(p.dels, head),
                                                                 !.deleted = head # NoMsg]),
                                  !.messages = IF Len(@) = 0 THEN @ ELSE Tail(@),
                                  !.removed = IF head = NoMsg THEN @
                                              ELSE [@ EXCEPT ![head] = TRUE]]
             IN  Settle(c2, "returned", NoError)
        ELSE Settle(c, "returned", NoError)

\* (variant: this.messages.pop() in place of shift())
afterCallbackMemory_pop(c) ==
    LET p == CurProc(c.lp)
    IN  IF p.del
        THEN LET last == IF Len(c.messages) = 0 THEN NoMsg ELSE c.messages[Len(c.messages)]
                 c1 == Emit(c, [e |-> "shift", l |-> c.l, m |-> last])
                 c2 == [c1 EXCEPT !.lp = SetCur(c1.lp, [p EXCEPT !.dels = Append(p.dels, last),
                                                                 !.deleted = last # NoMsg]),
                                  !.messages = IF Len(@) = 0 THEN @
                                               ELSE SubSeq(@, 1, Len(@) - 1),
                                  !.removed = IF last = NoMsg THEN @
                                              ELSE [@ EXCEPT ![last] = TRUE]]
             IN  Settle(c2, "returned", NoError)
        ELSE Settle(c, "returned", NoError)

\* MemoryQueue.processMessage after `await callback(...)`
afterCallbackMemory(c) ==
    LET p == CurProc(c.lp)
    IN  IF p.del
        THEN LET head == IF Len(c.messages) = 0 THEN NoMsg ELSE c.messages[1]
                 c1 == Emit(c, [e |-> "shift", l |-> c.l, m |-> head])
                 c2 == [c1 EXCEPT !.lp = SetCur(c1.lp, [p EXCEPT !.dels = Append(p.dels, head),
                                                                 !.deleted = head # NoMsg]),
                                  !.messages = IF Len(@) = 0 THEN @ ELSE Tail(@),
                                  !.removed = IF head = NoMsg THEN @
                                              ELSE [@ EXCEPT ![head] = TRUE]]
             IN  Settle(c2, "returned", NoError)
        ELSE Settle(c, "returned", NoError)

\* (variant: the delete issued whatever state.del says)
afterCallbackSqs_always(c) ==
    delete(c, CurProc(c.lp).msg.ReceiptHandle, "callback")

\* sqs Queue.processMessage after `await callback(...)`
afterCallbackSqs(c) ==
    LET p == CurProc(c.lp)
    IN  IF p.del THEN delete(c, p.msg.ReceiptHandle, "callback")
        ELSE Settle(c, "returned", NoError)

afterCallback(c) ==
    IF c.backend = "memory" THEN afterCallbackMemory(c) ELSE afterCallbackSqs(c)

\* (variant: a body without keys treated as an error, like an empty body)
afterDelete_raise(c) ==
    LET p == CurProc(c.lp)
        c1 == [c EXCEPT !.lp = SetCur(c.lp, [p EXCEPT !.deleted = TRUE])]
    IN  IF p.after \in {EMPTY_BODY, "BODY_NO_KEYS"} THEN Settle(c1, "raised", p.after)
        ELSE Settle(c1, "returned", NoError)

\* sqs Queue.processMessage after `await this.delete(ReceiptHandle)`
afterDelete(c) ==
    LET p == CurProc(c.lp)
        c1 == [c EXCEPT !.lp = SetCur(c.lp, [p EXCEPT !.deleted = TRUE])]
    IN  IF p.after = EMPTY_BODY THEN Settle(c1, "raised", EMPTY_BODY)
        ELSE Settle(c1, "returned", NoError)

-----------------------------------------------------------------------------
(* Queue.start, segment by segment *)

\* (variant: do { ... } while (this.forever), the flag first read after an
\* iteration)
startWhile_doWhile(c, how) ==
    LET c1 == [c EXCEPT !.lp.res = "none", !.lp.batch = <<>>, !.lp.procs = <<>>,
                        !.lp.err = NoError]
    IN  IF ~c1.forever /\ how # "none" THEN [c1 EXCEPT !.lp.pc = "done", !.lp.ended = how]
        ELSE readMessages(c1)

\* (variant: while (true), the flag never read)
startWhile_noFlag(c, how) ==
    readMessages([c EXCEPT !.lp.res = "none", !.lp.batch = <<>>, !.lp.procs = <<>>,
                           !.lp.err = NoError])

\* while (this.forever) { try { const messages = await this.readMessages();
\* (the previous iteration's messages, activations and error go out of scope)
\* (how: the way the previous iteration ended, "none" for the first)
startWhile(c, how) ==
    LET c1 == [c EXCEPT !.lp.res = "none", !.lp.batch = <<>>, !.lp.procs = <<>>,
                        !.lp.err = NoError]
    IN  IF ~c1.forever THEN [c1 EXCEPT !.lp.pc = "done", !.lp.ended = how]
        ELSE readMessages(c1)

\* (variant: the error dropped, the loop goes straight on to its sleep)
catch_swallow(c, error) ==
    [Emit(c, [e |-> "sleep", l |-> c.l]) EXCEPT !.lp.pc = "errSleep"]

\* (variant: canThrow not looked at, every error goes to errorCallback)
catch_noRethrow(c, error) ==
    LET c1 == Emit(c, [e |-> "errorCallback", l |-> c.l, err |-> error])
    IN  [c1 EXCEPT !.lp.pc = "inErrorCallback", !.lp.err = error]

\* (variant: an error thrown out of start also clears the running flag)
catch_clearsFlag(c, error) ==
    IF c.lp.canThrow
    THEN [c EXCEPT !.lp.pc = "thrown", !.lp.err = error, !.lp.res = "none",
                   !.lp.batch = <<>>, !.lp.procs = <<>>, !.forever = FALSE]
    ELSE LET c1 == Emit(c, [e |-> "errorCallback", l |-> c.l, err |-> error])
         IN  [c1 EXCEPT !.lp.pc = "inErrorCallback", !.lp.err = error]

\* catch (error) { if (canThrow) throw error; await this.options.errorCallback(error);
catch(c, error) ==
    IF c.lp.canThrow
    THEN [c EXCEPT !.lp.pc = "thrown", !.lp.err = error, !.lp.res = "none",
                   !.lp.batch = <<>>, !.lp.procs = <<>>]
    ELSE LET c1 == Emit(c, [e |-> "errorCallback", l |-> c.l, err |-> error])
         IN  [c1 EXCEPT !.lp.pc = "inErrorCallback", !.lp.err = error]

\* for (const message of messages) { await this.processMessage(message, callback); }
forNext(c) ==
    IF Len(c.lp.procs) = Len(c.lp.batch) THEN startWhile(c, "normal")
    ELSE processMessage(c, c.lp.batch[Len(c.lp.procs) + 1])

\* (variant: the messages of the batch processed without awaiting one another,
\* as messages.map(m => this.processMessage(m, callback)) would)
RECURSIVE processAll(_, _)
processAll(c, i) ==
    IF i > Len(c.lp.batch) THEN c
    ELSE processAll(processMessage(c, c.lp.batch[i]), i + 1)

afterRead_concurrent(c) ==
    IF c.lp.res = "error" THEN catch(c, c.lp.err)
    ELSE IF c.lp.res = "undefined" \/ c.lp.batch = <<>> THEN startWhile(c, "undefined")
    ELSE processAll(c, 1)

\* (variant: no `if (messages === undefined) continue`: for-of over undefined
\* throws a TypeError inside the try)
afterRead_noUndefinedCheck(c) ==
    IF c.lp.res = "error" THEN catch(c, c.lp.err)
    ELSE IF c.lp.res = "undefined" THEN catch(c, "TypeError")
    ELSE forNext(c)

\* after `await this.readMessages()`
afterRead(c) ==
    IF c.lp.res = "error" THEN catch(c, c.lp.err)
    ELSE IF c.lp.res = "undefined" THEN startWhile(c, "undefined")
    ELSE forNext(c)

\* (variant: try/catch around each message, the for loop goes on after an error)
afterProcess_skipFailed(c) == forNext(c)

\* after `await this.processMessage(message, callback)`
afterProcess(c) ==
    LET p == CurProc(c.lp)
    IN  IF p.status = "raised" THEN catch(c, p.error)
        ELSE forNext(c)

-----------------------------------------------------------------------------
(* State *)

MaxLoopsOf(b) == IF b = "memory" THEN MaxLoops ELSE MaxSqsLoops

\* the scenario of SpecCycles: the calls made on the queue, in this order
CycleCalls == <<"start", "stop", "resume", "stop", "resume">>

Max(a, b) == IF a > b THEN a ELSE b

\* the calls of start that the scenario makes
CycleLoops == Cardinality({i \in DOMAIN CycleCalls : CycleCalls[i] # "stop"})

LoopIds == 1..Max(Max(MaxLoops, MaxSqsLoops), CycleLoops)

Ctx(l) == [l |-> l, lp |-> loops[l], backend |-> backend, forever |-> forever,
           messages |-> messages, dispatched |-> dispatched, removed |-> removed,
           ev |-> <<>>]

\* the step's effect c becomes the next state
Commit(c) ==
    /\ loops' = [loops EXCEPT ![c.l] = c.lp]
    /\ forever' = c.forever
    /\ messages' = c.messages
    /\ dispatched' = c.dispatched
    /\ removed' = c.removed
    /\ events' = c.ev

\* no call of createSSEStream yet
\*   pc        where the generator is suspended: "race" (line 77), "yieldKeepAlive"
\*             (80), "yieldInvalid" (97), "yieldItem" (109), "yieldCaught" (118),
\*             or "ended"
\*   items, ending   the source: what it yields, and how it finishes
\*   req, got  calls of streamIterator.next() made, and settled
\*   chunk     nextChunkPromise: "pending" or "settled"
\*   timer     keepAliveTimeout is armed
\*   out       history: the strings yielded
\*   onErrors  history: the errors given to onError
\*   kas       history: keep-alive timeouts that fired during a race
\*   returned  the consumer has called return() on the generator
NoSse == [pc |-> "none", items |-> <<>>, ending |-> "done", validate |-> TRUE,
          req |-> 0, got |-> 0, chunk |-> "none", timer |-> FALSE,
          out |-> <<>>, onErrors |-> <<>>, kas |-> 0, returned |-> FALSE]

\* an EnvLoader: `created` is false for a reference that is null
\*   schema       this.schema is set
\*   envData      this.envData ("{}" after construction)
\*   validatedEnv this.validatedEnv (Absent for null)
NullLoader == [created |-> FALSE, schema |-> FALSE, envData |-> "{}",
               validatedEnv |-> Absent, initialized |-> FALSE]

\* new EnvLoader()
NewLoader == [NullLoader EXCEPT !.created = TRUE]

\* the env objects made by createEnvWithInit(schema)
EnvObjects == {"envA", "envB"}

\* one-env after the module is loaded
\*   loader    an EnvLoader that the program made itself with new EnvLoader()
\*   global    globalInstance
\*   instance  per env object, the `instance` of its closure
\*   initOk    history: per object, a call of init on it has returned normally
\*   last      the last call of get, getOptional or getAll and how it ended
NoEnv == [loader |-> NewLoader, global |-> NullLoader,
          instance |-> [o \in EnvObjects |-> NullLoader],
          initOk |-> [o \in EnvObjects \cup {"loader"} |-> FALSE],
          last |-> [on |-> "none", method |-> "none", threw |-> "none", value |-> Absent]]

\* no message queue yet
\*   maxMessages  the option (0 before createMessageQueue)
\*   cache        the messages waiting, by number of their push
\*   pushed       calls of push so far
\*   writes       the calls of callback(messages, bufferCallback), in order, each
\*                with the state of the bulkWrite it started; bufferCallback is the
\*                number of the push whose completion callback it is, NoMsg for
\*                undefined
\*   acks         per push, how often its completion callback was invoked
\*   failed       a completion callback was invoked with an error: the Writable
\*                that gave it is destroyed
NoMq == [created |-> FALSE, maxMessages |-> NoMsg, cache |-> <<>>, pushed |-> NoMsg,
         writes |-> <<>>, acks |-> [m \in 1..MaxPushes |-> NoMsg], failed |-> FALSE]

InitCommon ==
    /\ sse = NoSse
    /\ env = NoEnv
    /\ mq = NoMq
    /\ forever = TRUE
    /\ loops = [l \in LoopIds |-> IdleLoop]
    /\ nLoops = 0
    /\ messages = <<>>
    /\ nextId = 1
    /\ dispatched = [m \in MsgIds |-> 0]
    /\ removed = [m \in MsgIds |-> FALSE]
    /\ phase = 0
    /\ events = <<>>
    /\ now = 0
    /\ sent = <<>>
    /\ sendPromises = <<>>
    /\ record = <<>>

InitMemory == backend = "memory" /\ InitCommon
InitSqs == backend = "sqs" /\ InitCommon
Init == InitMemory \/ InitSqs

-----------------------------------------------------------------------------
(* The public methods *)

\* start has returned or thrown
Finished(lp) == lp.pc \in {"done", "thrown"}

\* the calls of start and resume explored
MayStart == nLoops < MaxLoopsOf(backend)

\* Queue.start(callback, canThrow), to its first await
start(canThrow) ==
    /\ LET l  == nLoops + 1
           c0 == Ctx(l)
           c1 == [c0 EXCEPT !.lp = [IdleLoop EXCEPT !.canThrow = canThrow]]
       IN  Commit(startWhile(c1, "none"))
    /\ nLoops' = nLoops + 1
    /\ UNCHANGED <<backend, nextId, sendVars, libVars>>

\* Queue.stop()
stop ==
    /\ forever' = FALSE
    /\ events' = <<>>
    /\ UNCHANGED <<backend, loops, nLoops, messages, nextId, dispatched, removed,
                   sendVars, libVars>>

\* Queue.resume(callback, canThrow), to the first await of start
resume(canThrow) ==
    /\ LET l  == nLoops + 1
           c0 == Ctx(l)
           c1 == [c0 EXCEPT !.forever = TRUE,
                            !.lp = [IdleLoop EXCEPT !.canThrow = canThrow]]
       IN  Commit(startWhile(c1, "none"))
    /\ nLoops' = nLoops + 1
    /\ UNCHANGED <<backend, nextId, sendVars, libVars>>

\* the caller calls start
Start(canThrow) == MayStart /\ start(canThrow) /\ UNCHANGED phase

\* the caller calls stop
Stop == stop /\ UNCHANGED phase

\* the caller calls resume
Resume(canThrow) == MayStart /\ resume(canThrow) /\ UNCHANGED phase

\* the caller makes the next call of the scenario
\* start -> stop -> resume -> stop -> resume
CycleStep ==
    /\ phase < Len(CycleCalls)
    /\ phase' = phase + 1
    /\ \/ CycleCalls[phase + 1] = "start" /\ start(FALSE)
       \/ CycleCalls[phase + 1] = "stop" /\ stop
       \/ CycleCalls[phase + 1] = "resume" /\ resume(FALSE)

\* (variant: isRunning tells whether a call of start is still executing)
isRunning_loopAlive == \E l \in LoopIds : loops[l].pc \notin {"idle", "done", "thrown"}

\* Queue.isRunning()
isRunning == forever

\* (variant: createdAt written before the spread, {createdAt: new Date(),
\* ...body.params}, so that a createdAt of the caller's wins)
updatedBody_callerWins(body, date) ==
    [body EXCEPT !.params = [k \in DOMAIN body.params \cup {"createdAt"} |->
                                IF k \in DOMAIN body.params THEN body.params[k]
                                ELSE date]]

\* const updatedBody = {...body, params: {...body.params, createdAt: new Date()}}
\* (date: what new Date() read)
updatedBody(body, date) ==
    [body EXCEPT !.params = [k \in DOMAIN body.params \cup {"createdAt"} |->
                                IF k = "createdAt" THEN date ELSE body.params[k]]]

\* MemoryQueue.sendMessage: this.messages.push(body); the object is sent[nextId]
sendMessageMemory ==
    /\ messages' = Append(messages, nextId)
    /\ UNCHANGED sendPromises

\* sqs Queue.sendMessage, to its await: the SendMessageCommand is sent.  The
\* caller, Queue.send, drops the promise: nothing is attached to it.
sendMessageSqs ==
    /\ sendPromises' = Append(sendPromises, NewPromise)
    /\ UNCHANGED messages

\* Queue.send(body); the clock moves by d1 before new Date() and by d2 after it
send(body, d1, d2) ==
    /\ nextId <= MaxMsgs
    /\ now + d1 + d2 <= MaxClock
    /\ sent' = Append(sent, [body |-> body, invoked |-> now,
                             updatedBody |-> updatedBody(body, now + d1),
                             returned |-> now + d1 + d2])
    /\ IF backend = "memory" THEN sendMessageMemory ELSE sendMessageSqs
    /\ now' = now + d1 + d2
    /\ nextId' = nextId + 1
    /\ events' = <<>>
    /\ UNCHANGED <<backend, forever, loops, nLoops, dispatched, removed, phase, record,
                   libVars>>

\* the caller sends {name: "a", params: {x: 1}} to a MemoryQueue
Send == backend = "memory" /\ send(SeedEnvelope, 0, 0)

\* the caller sends {name: "a", params: {x: 1}} to an SQS queue
SendSqs == backend = "sqs" /\ send(SeedEnvelope, 0, 0)

\* the caller sends any envelope to a MemoryQueue, while time passes
SendEnvelope ==
    /\ backend = "memory"
    /\ \E body \in Envelopes, d1, d2 \in 0..1 : send(body, d1, d2)

\* time passes
Tick ==
    /\ now < MaxClock
    /\ now' = now + 1
    /\ events' = <<>>
    /\ UNCHANGED <<backend, forever, loops, nLoops, messages, nextId, dispatched,
                   removed, phase, sent, sendPromises, record, libVars>>

\* the SendMessageCommand succeeded (ok) or was rejected
SendSettled(i, ok) ==
    /\ i \in DOMAIN sendPromises
    /\ sendPromises[i].state = "pending"
    /\ sendPromises' = [sendPromises EXCEPT ![i].state = IF ok THEN "fulfilled" ELSE "rejected"]
    /\ events' = <<>>
    /\ UNCHANGED <<backend, forever, loops, nLoops, messages, nextId, dispatched,
                   removed, phase, now, sent, record, libVars>>

\* the caller calls isRunning and gets its value
IsRunning ==
    /\ events' = <<[e |-> "isRunning", value |-> isRunning]>>
    /\ UNCHANGED <<backend, forever, loops, nLoops, messages, nextId, dispatched,
                   removed, phase, sendVars, libVars>>

\* the caller calls start, once
StartOnce == nLoops = 0 /\ start(FALSE) /\ UNCHANGED phase

-----------------------------------------------------------------------------
(* The continuations of a loop *)

Frame == UNCHANGED <<backend, nLoops, nextId, phase, sendVars, libVars>>

\* MemoryQueue.readMessages: sleep(100) is over, return undefined
ReadSleepDone(l) ==
    /\ loops[l].pc = "readSleep"
    /\ Commit([Ctx(l) EXCEPT !.lp.pc = "readDone", !.lp.res = "undefined"])
    /\ Frame

\* sqs readMessages: canRead() answered
CanReadDone(l, readable) ==
    /\ loops[l].pc = "canRead"
    /\ IF ~readable
       THEN Commit([Ctx(l) EXCEPT !.lp.pc = "readDone", !.lp.res = "undefined"])
       ELSE Commit([Emit(Ctx(l), [e |-> "receive", l |-> l]) EXCEPT !.lp.pc = "receiving"])
    /\ Frame

\* sqs readMessages: canRead() threw, or its promise was rejected: readMessages
\* is rejected with that error and no ReceiveMessageCommand is sent
CanReadFail(l) ==
    /\ loops[l].pc = "canRead"
    /\ Commit([Ctx(l) EXCEPT !.lp.pc = "readDone", !.lp.res = "error",
                             !.lp.err = CanReadError])
    /\ Frame

\* sqs readMessages: the ReceiveMessageCommand answered with Messages
ReceiveDone(l) ==
    /\ loops[l].pc = "receiving"
    /\ \E Messages \in SqsBatchesOf(l) :
           Commit([Ctx(l) EXCEPT !.lp.pc = "readDone", !.lp.res = "batch",
                                 !.lp.batch = Messages])
    /\ Frame

\* sqs readMessages: the ReceiveMessageCommand answered without Messages
ReceiveNone(l) ==
    /\ loops[l].pc = "receiving"
    /\ Commit([Ctx(l) EXCEPT !.lp.pc = "readDone", !.lp.res = "undefined"])
    /\ Frame

\* sqs readMessages: the ReceiveMessageCommand was rejected
ReceiveFail(l) ==
    /\ loops[l].pc = "receiving"
    /\ Commit([Ctx(l) EXCEPT !.lp.pc = "readDone", !.lp.res = "error",
                             !.lp.err = TransportError])
    /\ Frame

\* start continues after `await this.readMessages()`
AfterRead(l) ==
    /\ loops[l].pc = "readDone"
    /\ Commit(afterRead(Ctx(l)))
    /\ Frame

\* the callback returned with state.del as it left it
CallbackReturn(l, del) ==
    /\ loops[l].pc = "inCallback"
    /\ LET c == Ctx(l)
           p == CurProc(c.lp)
       IN  Commit(afterCallback([c EXCEPT !.lp = SetCur(c.lp, [p EXCEPT !.del = del,
                                                                  !.callback = "returned"])]))
    /\ Frame

\* the callback of the scenarios: it records (name, params), the parts that
\* MemoryQueue.processMessage took from the message, and returns
RecordingCallback(l) ==
    /\ loops[l].pc = "inCallback"
    /\ backend = "memory"
    /\ LET c == Ctx(l)
           p == CurProc(c.lp)
           message == sent[p.msg].updatedBody
       IN  /\ record' = Append(record, <<message.name, message.params>>)
           /\ Commit(afterCallback([c EXCEPT !.lp = SetCur(c.lp, [p EXCEPT !.callback = "returned"])]))
    /\ UNCHANGED <<backend, nLoops, nextId, phase, now, sent, sendPromises, libVars>>

\* the callback threw, or its promise was rejected
CallbackThrow(l) ==
    /\ loops[l].pc = "inCallback"
    /\ LET c == Ctx(l)
           p == CurProc(c.lp)
       IN  Commit(Settle([c EXCEPT !.lp = SetCur(c.lp, [p EXCEPT !.callback = "threw"])],
                         "raised", CallbackError))
    /\ Frame

\* the DeleteMessageCommand succeeded
DeleteDone(l) ==
    /\ loops[l].pc = "inDelete"
    /\ Commit(afterDelete(Ctx(l)))
    /\ Frame

\* the DeleteMessageCommand was rejected
DeleteFail(l) ==
    /\ loops[l].pc = "inDelete"
    /\ Commit(Settle(Ctx(l), "raised", TransportError))
    /\ Frame

\* start continues after `await this.processMessage(message, callback)`
AfterProcess(l) ==
    /\ loops[l].pc = "procDone"
    /\ Commit(afterProcess(Ctx(l)))
    /\ Frame

\* (variant: no sleep after errorCallback, the loop reads again at once)
ErrorCallbackDone_noSleep(l) ==
    /\ loops[l].pc = "inErrorCallback"
    /\ Commit(startWhile(Ctx(l), "error"))
    /\ Frame

\* errorCallback returned: await sleep(this.options.sleepTimeout)
ErrorCallbackDone(l) ==
    /\ loops[l].pc = "inErrorCallback"
    /\ Commit([Emit(Ctx(l), [e |-> "sleep", l |-> l]) EXCEPT !.lp.pc = "errSleep"])
    /\ Frame

\* errorCallback threw, or its promise was rejected: the error leaves the
\* catch block, and start with it
ErrorCallbackThrow(l) ==
    /\ loops[l].pc = "inErrorCallback"
    /\ Commit([Ctx(l) EXCEPT !.lp.pc = "thrown", !.lp.err = ErrorCallbackError,
                             !.lp.res = "none", !.lp.batch = <<>>, !.lp.procs = <<>>])
    /\ Frame

\* the sleep is over: back to the while condition
SleepDone(l) ==
    /\ loops[l].pc = "errSleep"
    /\ Commit(startWhile(Ctx(l), "error"))
    /\ Frame

-----------------------------------------------------------------------------
(* Specifications *)

Lifecycle ==
    \/ \E canThrow \in BOOLEAN : Start(canThrow)
    \/ Stop
    \/ \E canThrow \in BOOLEAN : Resume(canThrow)

LoopSteps ==
    \E l \in LoopIds :
        \/ AfterRead(l)
        \/ \E del \in BOOLEAN : CallbackReturn(l, del)
        \/ CallbackThrow(l)
        \/ AfterProcess(l)
        \/ ErrorCallbackDone(l)
        \/ ErrorCallbackThrow(l)
        \/ SleepDone(l)

NextMemory ==
    \/ Lifecycle
    \/ LoopSteps
    \/ Send
    \/ \E l \in LoopIds : ReadSleepDone(l)

\* the answers of canRead and of the SQS client
SqsSteps ==
    \E l \in LoopIds :
        \/ \E readable \in BOOLEAN : CanReadDone(l, readable)
        \/ CanReadFail(l)
        \/ ReceiveDone(l)
        \/ ReceiveNone(l)
        \/ ReceiveFail(l)
        \/ DeleteDone(l)
        \/ DeleteFail(l)

NextSqs ==
    \/ Lifecycle
    \/ LoopSteps
    \/ SqsSteps

NextCycles ==
    \/ CycleStep
    \/ Send
    \/ \E l \in LoopIds :
        \/ ReadSleepDone(l)
        \/ AfterRead(l)
        \/ CallbackReturn(l, TRUE)
        \/ AfterProcess(l)

\* a MemoryQueue
SpecMemory == InitMemory /\ [][NextMemory]_vars

\* a MemoryQueue on which start, stop, resume, stop, resume are called, with a
\* callback that returns and leaves state.del alone
SpecCycles == InitMemory /\ [][NextCycles]_vars

\* either backend
SpecQueue == Init /\ [][NextMemory \/ NextSqs]_vars

\* an SQS queue
SpecSqs == InitSqs /\ [][NextSqs]_vars

NextEnvelope ==
    \/ StartOnce
    \/ SendEnvelope
    \/ Tick
    \/ \E l \in LoopIds :
        \/ ReadSleepDone(l)
        \/ AfterRead(l)
        \/ RecordingCallback(l)
        \/ AfterProcess(l)

\* a MemoryQueue with one call of start, whose callback records its arguments
\* and returns, and any envelopes sent to it
SpecEnvelope == InitMemory /\ [][NextEnvelope]_vars

NextSend ==
    \/ StartOnce
    \/ Stop
    \/ LoopSteps
    \/ SqsSteps
    \/ SendSqs
    \/ \E i \in 1..MaxMsgs, ok \in BOOLEAN : SendSettled(i, ok)

\* an SQS queue with one call of start, that is sent to, with any number of
\* SendMessageCommands unanswered at a time
SpecSend == InitSqs /\ [][NextSend]_vars

NextStopped ==
    \/ CycleStep
    \/ Send
    \/ IsRunning
    \/ LoopSteps
    \/ \E l \in LoopIds : ReadSleepDone(l)

\* a MemoryQueue on which start, stop, resume, stop, resume are called, with any
\* callback, while the caller asks isRunning
SpecStopped == InitMemory /\ [][NextStopped]_vars

-----------------------------------------------------------------------------
(* fastify-zod-reply: createSSEStream *)

\* the items of the model: {id?, retry?, event?, data}; data "d1+x" is d1 with a
\* key that the schema does not know, data "bad" does not fit the schema
SseItems ==
    { [id |-> Absent, retry |-> Absent, event |-> "first", data |-> "d1"],
      [id |-> Absent, retry |-> Absent, event |-> Absent, data |-> "d2"],
      [id |-> "7", retry |-> "3000", event |-> "", data |-> "d1+x"],
      [id |-> Absent, retry |-> Absent, event |-> Absent, data |-> "bad"] }

RECURSIVE SseItemSeqs(_)
SseItemSeqs(n) ==
    IF n = 0 THEN {<<>>}
    ELSE {Append(q, x) : q \in SseItemSeqs(n - 1), x \in SseItems}

\* what a source generator does: yields up to MaxItems items, then returns
\* ("done"), throws an Error, throws an AbortError, or throws a value that is
\* no Error
SseSources == UNION {SseItemSeqs(n) : n \in 0..MaxItems}
SseEndings == {"done", "Error", "AbortError", "NonError"}

\* error.message of what the source throws
ErrorMessage(ending) == IF ending = "Error" THEN "Stream exploded!" ELSE "aborted"

\* mapZodError(validation.error, "stream-item")
StreamItemError == "Error at stream-item->data"

\* schema.safeParse(value): zod returns the parsed data, without unknown keys
safeParse(value) ==
    IF value.data = "bad" THEN [success |-> FALSE, data |-> value]
    ELSE [success |-> TRUE,
          data |-> [value EXCEPT !.data = IF @ = "d1+x" THEN "d1" ELSE @]]

\* JSON.stringify(message.data)
JSONstringify(data) == <<"json", data>>

\* formatSSEMessage(message): the lines of the output, in order
formatSSEMessage(message) ==
    (IF message.id # Absent THEN << <<"id", message.id>> >> ELSE <<>>)
    \o (IF message.retry # Absent THEN << <<"retry", message.retry>> >> ELSE <<>>)
    \o (IF ~Falsy(message.event) THEN << <<"event", message.event>> >> ELSE <<>>)
    \o << <<"data", JSONstringify(message.data)>> >>

\* ": keep-alive\n\n"
KeepAlive == << <<"comment", "keep-alive">> >>

\* {event: "error", data}
ErrorEvent(data) == [id |-> Absent, retry |-> Absent, event |-> "error", data |-> data]

\* what the n-th call of streamIterator.next() settles with
sourceResult(s, n) ==
    IF n <= Len(s.items) THEN [kind |-> "value", value |-> s.items[n]]
    ELSE IF n = Len(s.items) + 1 /\ s.ending # "done"
         THEN [kind |-> "rejected", value |-> s.ending]
    ELSE [kind |-> "done", value |-> Absent]

\* (variant: an item that fails validation ends the stream after its error event)
sseOnChunk_endOnInvalid(s) ==
    LET result == sourceResult(s, s.req)
    IN  IF result.kind = "rejected"
        THEN LET s1 == [s EXCEPT !.onErrors = Append(@, result.value)]
             IN  IF result.value \in {"Error"}
                 THEN [s1 EXCEPT !.out = Append(@, formatSSEMessage(ErrorEvent(ErrorMessage(result.value)))),
                                 !.pc = "yieldCaught"]
                 ELSE [s1 EXCEPT !.timer = FALSE, !.pc = "ended"]
        ELSE IF result.kind = "done" THEN [s EXCEPT !.timer = FALSE, !.pc = "ended"]
        ELSE LET validation == safeParse(result.value)
             IN  IF s.validate /\ ~validation.success
                 THEN [s EXCEPT !.timer = FALSE,
                                !.onErrors = Append(@, StreamItemError),
                                !.out = Append(@, formatSSEMessage(ErrorEvent(StreamItemError))),
                                !.pc = "yieldCaught"]
                 ELSE [s EXCEPT !.timer = FALSE,
                                !.out = Append(@, formatSSEMessage(
                                            IF s.validate THEN validation.data ELSE result.value)),
                                !.pc = "yieldItem"]

\* (variant: the catch block sends an error event for every Error, AbortError
\* included)
sseOnChunk_abortAsError(s) ==
    LET result == sourceResult(s, s.req)
    IN  IF result.kind = "rejected"
        THEN LET s1 == [s EXCEPT !.onErrors = Append(@, result.value)]
             IN  IF result.value \in {"Error", "AbortError"}
                 THEN [s1 EXCEPT !.out = Append(@, formatSSEMessage(ErrorEvent(ErrorMessage(result.value)))),
                                 !.pc = "yieldCaught"]
                 ELSE [s1 EXCEPT !.timer = FALSE, !.pc = "ended"]
        ELSE IF result.kind = "done" THEN [s EXCEPT !.timer = FALSE, !.pc = "ended"]
        ELSE LET validation == safeParse(result.value)
             IN  IF s.validate /\ ~validation.success
                 THEN [s EXCEPT !.timer = FALSE,
                                !.onErrors = Append(@, StreamItemError),
                                !.out = Append(@, formatSSEMessage(ErrorEvent(StreamItemError))),
                                !.pc = "yieldInvalid"]
                 ELSE [s EXCEPT !.timer = FALSE,
                                !.out = Append(@, formatSSEMessage(
                                            IF s.validate THEN validation.data ELSE result.value)),
                                !.pc = "yieldItem"]

\* createSSEStream, lines 79-119: the race was won by nextChunkPromise, which
\* settled with the result of the last call of next()
sseOnChunk(s) ==
    LET result == sourceResult(s, s.req)
    IN  IF result.kind = "rejected"
        \* catch (error): onError, logger.error, an error event for an Error that
        \* is no AbortError, then finally
        THEN LET s1 == [s EXCEPT !.onErrors = Append(@, result.value)]
             IN  IF result.value \in {"Error"}
                 THEN [s1 EXCEPT !.out = Append(@, formatSSEMessage(ErrorEvent(ErrorMessage(result.value)))),
                                 !.pc = "yieldCaught"]
                 ELSE [s1 EXCEPT !.timer = FALSE, !.pc = "ended"]
        \* clearTimeout; if (result.done) break; then finally
        ELSE IF result.kind = "done" THEN [s EXCEPT !.timer = FALSE, !.pc = "ended"]
        ELSE LET validation == safeParse(result.value)
             IN  IF s.validate /\ ~validation.success
                 THEN [s EXCEPT !.timer = FALSE,
                                !.onErrors = Append(@, StreamItemError),
                                !.out = Append(@, formatSSEMessage(ErrorEvent(StreamItemError))),
                                !.pc = "yieldInvalid"]
                 ELSE [s EXCEPT !.timer = FALSE,
                                !.out = Append(@, formatSSEMessage(
                                            IF s.validate THEN validation.data ELSE result.value)),
                                !.pc = "yieldItem"]

\* const keepAlivePromise = scheduleKeepAlive(); await Promise.race([...]):
\* a chunk that has settled already wins the race
sseRace(s) ==
    LET s1 == [s EXCEPT !.timer = TRUE]
    IN  IF s1.chunk = "settled" THEN sseOnChunk([s1 EXCEPT !.chunk = "none"])
        ELSE [s1 EXCEPT !.pc = "race"]

\* (variant: next() called twice, the first promise dropped)
sseNext_twice(s) == [s EXCEPT !.req = @ + 2, !.chunk = "pending"]

\* nextChunkPromise = streamIterator.next()
sseNext(s) == [s EXCEPT !.req = @ + 1, !.chunk = "pending"]

\* (variant: a new next() is asked for after a keep-alive as well)
sseResume_nextAfterKeepAlive(s) ==
    IF s.pc = "yieldCaught" THEN [s EXCEPT !.timer = FALSE, !.pc = "ended"]
    ELSE sseRace(sseNext(s))

\* the consumer asks for the next string: the generator goes on after its yield
sseResume(s) ==
    IF s.pc = "yieldKeepAlive" THEN sseRace(s)
    ELSE IF s.pc = "yieldCaught" THEN [s EXCEPT !.timer = FALSE, !.pc = "ended"]
    ELSE sseRace(sseNext(s))

\* the places where the generator is suspended at a yield
SseYields == {"yieldKeepAlive", "yieldInvalid", "yieldItem", "yieldCaught"}

\* the generator is resumed at its yield by return(): finally { clearTimeout }
sseReturn(s) == [s EXCEPT !.timer = FALSE, !.pc = "ended"]

\* the generator has run on to a yield or to its end: a return() that was
\* called while it was running is served at the yield
sseYield(s) == IF s.returned /\ s.pc \in SseYields THEN sseReturn(s) ELSE s

SseFrame ==
    /\ events' = <<>>
    /\ UNCHANGED <<backend, forever, loops, nLoops, messages, nextId, dispatched,
                   removed, phase, sendVars, env, mq>>

\* createSSEStream({stream, validate, ...}) is read for the first time: the
\* generator runs to its first await
SseCreate ==
    /\ sse.pc = "none"
    /\ \E items \in SseSources, ending \in SseEndings, validate \in BOOLEAN :
           sse' = sseRace(sseNext([NoSse EXCEPT !.items = items, !.ending = ending,
                                               !.validate = validate]))
    /\ SseFrame

\* the source settles the call of next() that is outstanding
SseSourceSettles ==
    /\ sse.chunk = "pending"
    /\ LET s == [sse EXCEPT !.chunk = "settled", !.got = @ + 1]
       IN  sse' = IF s.pc = "race" THEN sseYield(sseOnChunk([s EXCEPT !.chunk = "none"]))
                  ELSE s
    /\ SseFrame

\* the keep-alive timeout fires; during a race it wins it
SseKeepAliveTimeout ==
    /\ sse.timer
    /\ IF sse.pc = "race"
       THEN /\ sse.kas < MaxKeepAlives
            /\ sse' = sseYield([sse EXCEPT !.timer = FALSE, !.kas = @ + 1,
                                           !.out = Append(@, KeepAlive),
                                           !.pc = "yieldKeepAlive"])
       ELSE sse' = [sse EXCEPT !.timer = FALSE]
    /\ SseFrame

\* the consumer (Readable.from) reads on
SseConsumerReads ==
    /\ sse.pc \in SseYields
    /\ sse' = sseResume(sse)
    /\ SseFrame

\* the consumer abandons the stream (Readable.from is destroyed, as when the
\* client disconnects): generator.return().  A generator that was never read
\* ends without running, one that is suspended at a yield ends through its
\* finally, and one that is running (awaiting the race) ends at its next yield
SseConsumerReturns ==
    /\ sse.pc # "ended"
    /\ ~sse.returned
    /\ sse' = IF sse.pc = "none" THEN [sse EXCEPT !.returned = TRUE, !.pc = "ended"]
              ELSE sseYield([sse EXCEPT !.returned = TRUE])
    /\ SseFrame

NextSse ==
    \/ SseCreate
    \/ SseSourceSettles
    \/ SseKeepAliveTimeout
    \/ SseConsumerReads
    \/ SseConsumerReturns

\* one SSE stream, read to its end or abandoned by its consumer
SpecSse == InitMemory /\ [][NextSse]_vars

-----------------------------------------------------------------------------
(* one-env: EnvLoader, createEnv, createEnvWithInit *)

\* what loadEnvironmentData finds: nothing readable, or a document; "invalid"
\* does not fit the schema, "empty" is a document that the schema admits and
\* parses to a falsy value
EnvDocuments == {"cfgA", "cfgB", "invalid", "empty"}
EnvSources == {"unreadable"} \cup EnvDocuments

NotInitialized == "Environment not initialized. Call env.init() first."

\* this.schema.parse(this.envData)
schemaParse(envData) ==
    IF envData = "invalid" THEN [ok |-> FALSE, value |-> Absent]
    ELSE IF envData = "empty" THEN [ok |-> TRUE, value |-> Absent]
    ELSE [ok |-> TRUE, value |-> envData]

\* (variant: no early return when the loader is initialized already)
loaderInit_always(ld, source) ==
    LET l1 == [ld EXCEPT !.schema = TRUE]
    IN  IF source = "unreadable" THEN [loader |-> l1, threw |-> TRUE]
        ELSE LET l2 == [l1 EXCEPT !.envData = source]
                 parsed == schemaParse(source)
             IN  IF ~parsed.ok THEN [loader |-> l2, threw |-> TRUE]
                 ELSE [loader |-> [l2 EXCEPT !.validatedEnv = parsed.value,
                                             !.initialized = TRUE],
                       threw |-> FALSE]

\* EnvLoader.init(options): the loader afterwards, and whether init threw
loaderInit(ld, source) ==
    IF ld.initialized THEN [loader |-> ld, threw |-> FALSE]
    ELSE LET l1 == [ld EXCEPT !.schema = TRUE]
         IN  IF source = "unreadable" THEN [loader |-> l1, threw |-> TRUE]
             ELSE LET l2 == [l1 EXCEPT !.envData = source]
                      parsed == schemaParse(source)
                  IN  IF ~parsed.ok THEN [loader |-> l2, threw |-> TRUE]
                      ELSE [loader |-> [l2 EXCEPT !.validatedEnv = parsed.value,
                                                  !.initialized = TRUE],
                            threw |-> FALSE]

\* EnvLoader.get / getOptional / getAll: what the call throws, or its value
loaderGet(ld, method) ==
    IF method = "getAll"
    THEN IF ld.validatedEnv = Absent THEN [threw |-> NotInitialized, value |-> Absent]
         ELSE [threw |-> "none", value |-> ld.validatedEnv]
    ELSE IF ~ld.initialized \/ ld.validatedEnv = Absent
         THEN [threw |-> NotInitialized, value |-> Absent]
         ELSE [threw |-> "none", value |-> ld.validatedEnv]

\* createEnv(options): the global instance afterwards, what is returned, and
\* whether it threw
createEnv(global, source) ==
    IF global.created THEN [global |-> global, returned |-> global, threw |-> FALSE]
    ELSE LET r == loaderInit(NewLoader, source)
         IN  IF r.threw THEN [global |-> global, returned |-> NullLoader, threw |-> TRUE]
             ELSE [global |-> r.loader, returned |-> r.loader, threw |-> FALSE]

EnvFrame ==
    /\ events' = <<>>
    /\ UNCHANGED <<backend, forever, loops, nLoops, messages, nextId, dispatched,
                   removed, phase, sendVars, sse, mq>>

\* the program calls init on its own EnvLoader
EnvLoaderInit(source) ==
    /\ LET r == loaderInit(env.loader, source)
       IN  env' = [env EXCEPT !.loader = r.loader,
                              !.initOk["loader"] = @ \/ ~r.threw]
    /\ EnvFrame

\* the program calls get, getOptional or getAll on its own EnvLoader
EnvLoaderGet(method) ==
    /\ LET r == loaderGet(env.loader, method)
       IN  env' = [env EXCEPT !.last = [on |-> "loader", method |-> method,
                                        threw |-> r.threw, value |-> r.value]]
    /\ EnvFrame

\* the program calls createEnv itself
EnvCreateEnv(source) ==
    /\ env' = [env EXCEPT !.global = createEnv(env.global, source).global]
    /\ EnvFrame

\* init(options) of an env object of createEnvWithInit
EnvInit(o, source) ==
    /\ IF env.instance[o].created
       THEN env' = [env EXCEPT !.initOk[o] = TRUE]
       ELSE LET r == createEnv(env.global, source)
            IN  env' = [env EXCEPT !.global = r.global,
                                   !.instance[o] = r.returned,
                                   !.initOk[o] = @ \/ ~r.threw]
    /\ EnvFrame

\* get, getOptional or getAll of createEnvWithInit, by the instance of the
\* closure: what the call throws, or its value
envGet(instance, method) ==
    IF ~instance.created THEN [threw |-> NotInitialized, value |-> Absent]
    ELSE loaderGet(instance, method)

\* get, getOptional or getAll of an env object of createEnvWithInit
EnvGet(o, method) ==
    /\ LET r == envGet(env.instance[o], method)
       IN  env' = [env EXCEPT !.last = [on |-> o, method |-> method,
                                        threw |-> r.threw, value |-> r.value]]
    /\ EnvFrame

EnvMethods == {"get", "getOptional", "getAll"}

NextEnv ==
    \/ \E source \in EnvSources : EnvLoaderInit(source)
    \/ \E method \in EnvMethods : EnvLoaderGet(method)
    \/ \E source \in EnvSources : EnvCreateEnv(source)
    \/ \E o \in EnvObjects, source \in EnvSources : EnvInit(o, source)
    \/ \E o \in EnvObjects, method \in EnvMethods : EnvGet(o, method)

\* the env objects of one process
SpecEnv == InitMemory /\ [][NextEnv]_vars

-----------------------------------------------------------------------------
(* pino-mongodb: createMessageQueue and the callback of bulkTransport *)

\* (variant: without `if (messages.length === 0) return`)
sendMessages_noEmptyCheck(q, bufferCallback) ==
    LET n == Min(q.maxMessages, Len(q.cache))
        batchOut == SubSeq(q.cache, 1, n)
        q1 == [q EXCEPT !.cache = SubSeq(@, n + 1, Len(@))]
    IN  [q1 EXCEPT !.writes = Append(@, [messages |-> batchOut,
                                         bufferCallback |-> bufferCallback,
                                         state |-> "pending"])]

\* sendMessages(bufferCallback): const messages = cache.splice(0, maxMessages);
\* if (messages.length === 0) return; return callback(messages, bufferCallback)
\* where the callback of bulkTransport starts collection.bulkWrite(...)
sendMessages(q, bufferCallback) ==
    LET n == Min(q.maxMessages, Len(q.cache))
        batchOut == SubSeq(q.cache, 1, n)
        q1 == [q EXCEPT !.cache = SubSeq(@, n + 1, Len(@))]
    IN  IF Len(batchOut) = 0 THEN q1
        ELSE [q1 EXCEPT !.writes = Append(@, [messages |-> batchOut,
                                              bufferCallback |-> bufferCallback,
                                              state |-> "pending"])]

\* bufferCallback(): the completion callback of push number m is invoked
ack(q, m) == IF m = NoMsg THEN q ELSE [q EXCEPT !.acks[m] = @ + 1]

\* push(message, bufferCallback)
push(q, message) ==
    LET q1 == [q EXCEPT !.cache = Append(@, message), !.pushed = message]
    IN  IF Len(q1.cache) = q1.maxMessages THEN sendMessages(q1, message)
        ELSE ack(q1, message)

\* the bulkWrite of write number i settles: on success nothing is called; the
\* catch of the callback calls errorCallback for a rejection with an Error
writeSettles(q, i, outcome) ==
    LET q1 == [q EXCEPT !.writes[i].state = outcome]
    IN  IF outcome = "rejectedError" /\ q.writes[i].bufferCallback # NoMsg
        THEN [ack(q1, q.writes[i].bufferCallback) EXCEPT !.failed = TRUE]
        ELSE q1

MqFrame ==
    /\ events' = <<>>
    /\ UNCHANGED <<backend, forever, loops, nLoops, messages, nextId, dispatched,
                   removed, phase, sendVars, sse, env>>

\* createMessageQueue({callback, maxMessages}) with an empty cache
MqCreate ==
    /\ ~mq.created
    /\ \E maxMessages \in 1..MaxBatchSize :
           mq' = [NoMq EXCEPT !.created = TRUE, !.maxMessages = maxMessages]
    /\ MqFrame

\* the Writable of bulkTransport calls push(chunk, callback): a Writable writes
\* its next chunk once the callback of the write before was invoked, and
\* nothing more once a callback was invoked with an error
MqPush ==
    /\ mq.created
    /\ mq.pushed < MaxPushes
    /\ ~mq.failed
    /\ mq.pushed > 0 => mq.acks[mq.pushed] > 0
    /\ mq' = push(mq, mq.pushed + 1)
    /\ MqFrame

\* a caller of createMessageQueue calls push(message, bufferCallback) itself,
\* whatever has become of the messages pushed before
MqCallPush ==
    /\ mq.created
    /\ mq.pushed < MaxPushes
    /\ mq' = push(mq, mq.pushed + 1)
    /\ MqFrame

\* setInterval(sendMessages, interval) fires: sendMessages()
MqInterval ==
    /\ mq.created
    /\ mq' = sendMessages(mq, NoMsg)
    /\ MqFrame

\* a bulkWrite settles
MqWriteSettles ==
    /\ \E i \in DOMAIN mq.writes, outcome \in {"fulfilled", "rejectedError", "rejectedOther"} :
           /\ mq.writes[i].state = "pending"
           /\ mq' = writeSettles(mq, i, outcome)
    /\ MqFrame

NextMq ==
    \/ MqCreate
    \/ MqPush
    \/ MqInterval
    \/ MqWriteSettles

\* the message queue of one log transport, pushed to by its Writable
SpecMq == InitMemory /\ [][NextMq]_vars

NextMqCalls ==
    \/ MqCreate
    \/ MqCallPush
    \/ MqInterval
    \/ MqWriteSettles

\* one message queue, pushed to by its caller at any time
SpecMqCalls == InitMemory /\ [][NextMqCalls]_vars

-----------------------------------------------------------------------------
(* Properties *)

\* the activations of processMessage that the live batches hold
ProcsOf(l) == {loops[l].procs[i] : i \in DOMAIN loops[l].procs}
AllProcs == UNION {ProcsOf(l) : l \in LoopIds}

Settled(p) == p.status \in {"returned", "raised"}

InFlight(l) == loops[l].procs # <<>> /\ CurProc(loops[l]).status = "running"

\* C1: on a MemoryQueue whose callback returns and leaves state.del alone, once
\* start, stop, resume, stop, resume have been called no message has been passed
\* to the callback twice, and none was removed from the queue without having
\* been passed to it.
C1_ExactlyOnceAfterCycles ==
    phase = Len(CycleCalls) =>
        \A m \in MsgIds : /\ dispatched[m] <= 1
                          /\ removed[m] => dispatched[m] >= 1

\* C2: no two calls of processMessage are in flight for the same message.
C2_OneInFlightPerMessage ==
    \A l1, l2 \in LoopIds :
        (l1 # l2 /\ InFlight(l1) /\ InFlight(l2))
            => CurProc(loops[l1]).msg # CurProc(loops[l2]).msg

\* C3, as claimed: once processMessage has settled, the message is deleted if
\* and only if the callback did not set state.del to false.
C3_DeletedIffNotRetained ==
    \A p \in AllProcs : Settled(p) => (p.deleted <=> p.del)

\* C3, amended: when the callback was invoked and has returned, processMessage
\* issues a delete if and only if the callback left state.del true.
C3_DeleteIssuedIffNotRetained ==
    \A p \in AllProcs : p.callback = "returned" => (p.dels # <<>> <=> p.del)

C3_Witness ==
    \E p \in AllProcs : p.callback = "returned" /\ ~p.del /\ Settled(p)

\* C4: readMessages is called only while the flag is true, so after stop() and
\* until a resume no loop reads again; stop() itself changes nothing of a loop
\* in flight; and a loop ends only at its while condition with the flag false.
C4_NoReadAfterStop ==
    [][/\ \A i \in DOMAIN events' : events'[i].e = "readMessages" => forever'
       /\ (forever /\ ~forever') => loops' = loops
       /\ \A l \in LoopIds :
            (loops[l].pc # "done" /\ loops'[l].pc = "done") => ~forever']_vars

C4_Witness ==
    /\ ~forever
    /\ \E l \in LoopIds : loops[l].pc = "done" /\ loops[l].ended = "error"
    /\ \E l \in LoopIds : loops[l].pc = "done" /\ loops[l].ended = "undefined"

\* C5: the calls of processMessage for a batch are made in the order of the
\* batch, and each one has settled (callback and delete included) before the
\* next is made.
C5_BatchInOrderOneAtATime ==
    \A l \in LoopIds :
        LET lp == loops[l]
        IN  /\ Len(lp.procs) <= Len(lp.batch)
            /\ \A i \in DOMAIN lp.procs :
                /\ lp.procs[i].msg = lp.batch[i]
                /\ i < Len(lp.procs) => lp.procs[i].status = "returned"
            /\ lp.pc \in {"inCallback", "inDelete"} <=> InFlight(l)

C5_Witness ==
    \E l \in LoopIds :
        /\ Len(loops[l].procs) = 2
        /\ loops[l].procs[1].deleted
        /\ loops[l].procs[2].callback = "invoked"

\* C6: a callback that set state.del = false is followed by no delete; one that
\* left it true is followed by exactly one delete call, for that message, and
\* none is issued before the callback has returned.
C6_DeleteFollowsStateDel ==
    \A p \in AllProcs :
        /\ p.callback = "invoked" => p.dels = <<>>
        /\ (p.callback = "returned" /\ ~p.del) => p.dels = <<>>
        /\ (p.callback = "returned" /\ p.del) =>
              /\ Len(p.dels) = 1
              /\ backend = "sqs" => p.dels[1] = p.msg.ReceiptHandle

C6_Witness ==
    /\ backend = "sqs"
    /\ \E p \in AllProcs : p.callback = "returned" /\ p.del /\ p.deleted /\ Settled(p)

\* C7: when the callback throws no delete is issued, processMessage raises the
\* error, and start's next step hands it to errorCallback (canThrow false) or
\* throws it out of start (canThrow true).
C7_CallbackErrorReachesLoop ==
    [][\A l \in LoopIds :
        /\ \A i \in DOMAIN loops'[l].procs :
             LET p == loops'[l].procs[i]
             IN  p.callback = "threw" =>
                    p.dels = <<>> /\ p.status = "raised" /\ p.error = CallbackError
        /\ ( /\ loops[l].pc = "procDone"
             /\ CurProc(loops[l]).callback = "threw"
             /\ loops'[l] # loops[l] )
           => IF loops[l].canThrow
              THEN loops'[l].pc = "thrown" /\ loops'[l].err = CallbackError
              ELSE /\ loops'[l].pc = "inErrorCallback"
                   /\ loops'[l].err = CallbackError
                   /\ events' = <<[e |-> "errorCallback", l |-> l, err |-> CallbackError]>>]_vars

C7_Witness ==
    \E l \in LoopIds :
        /\ loops[l].pc = "inErrorCallback"
        /\ loops[l].procs # <<>>
        /\ CurProc(loops[l]).callback = "threw"

HasHandle(m) == ~Falsy(m.ReceiptHandle)

\* C8, as claimed: a message with a receipt handle and an absent or empty body
\* is deleted, the callback is not invoked, and EMPTY_BODY is raised.
C8_EmptyBodyDeletedThenRaised ==
    \A p \in AllProcs :
        (HasHandle(p.msg) /\ Falsy(p.msg.Body) /\ Settled(p)) =>
            /\ p.callback = "none"
            /\ p.deleted
            /\ p.status = "raised" /\ p.error = EMPTY_BODY

\* C8, amended: for such a message exactly one delete call is issued, for its
\* receipt handle, and the callback is not invoked; EMPTY_BODY is raised when
\* that delete succeeded, and the delete's own error when it was rejected.
C8_EmptyBodyDeleteIssued ==
    \A p \in AllProcs :
        (HasHandle(p.msg) /\ Falsy(p.msg.Body)) =>
            /\ p.callback = "none"
            /\ p.dels = <<p.msg.ReceiptHandle>>
            /\ Settled(p) =>
                  /\ p.status = "raised"
                  /\ p.error = IF p.deleted THEN EMPTY_BODY ELSE TransportError

C8_Witness ==
    \E p \in AllProcs :
        HasHandle(p.msg) /\ p.msg.Body = "" /\ p.deleted /\ p.error = EMPTY_BODY

\* C9: a message without a receipt handle makes processMessage raise
\* NO_RECEIPT_HANDLE with no delete call and no callback, whatever its body.
C9_NoReceiptHandle ==
    \A p \in AllProcs :
        ~HasHandle(p.msg) =>
            /\ p.status = "raised" /\ p.error = NO_RECEIPT_HANDLE
            /\ p.dels = <<>>
            /\ p.callback = "none"

C9_Witness ==
    /\ \E p \in AllProcs : ~HasHandle(p.msg) /\ p.msg.Body = EnvelopeBody /\ Settled(p)
    /\ \E l \in LoopIds : loops[l].pc = "procDone"

BodyNoKeys(m) ==
    /\ ~Falsy(m.Body)
    /\ JSONparse(m.Body).ok
    /\ Cardinality(JSONparse(m.Body).keys) = 0

\* C10, as claimed: a message whose body parses to an object without keys is
\* deleted, the callback is not invoked, and processMessage returns.
C10_NoKeysDeletedSilently ==
    \A p \in AllProcs :
        (HasHandle(p.msg) /\ BodyNoKeys(p.msg) /\ Settled(p)) =>
            /\ p.callback = "none"
            /\ p.deleted
            /\ p.status = "returned"

\* C10, amended: for such a message exactly one delete call is issued, for its
\* receipt handle, and the callback is not invoked; processMessage returns
\* without an error when that delete succeeded, and raises the delete's own
\* error when it was rejected.
C10_NoKeysDeleteIssued ==
    \A p \in AllProcs :
        (HasHandle(p.msg) /\ BodyNoKeys(p.msg)) =>
            /\ p.callback = "none"
            /\ p.dels = <<p.msg.ReceiptHandle>>
            /\ Settled(p) =>
                  IF p.deleted THEN p.status = "returned" /\ p.error = NoError
                  ELSE p.status = "raised" /\ p.error = TransportError

C10_Witness ==
    \E p \in AllProcs :
        HasHandle(p.msg) /\ BodyNoKeys(p.msg) /\ p.deleted /\ p.status = "returned"

\* the step changes loop l
Moves(l) == loops'[l] # loops[l]

\* C11: with canThrow false, when readMessages has thrown, the next step of the
\* loop calls errorCallback once, with that error, and nothing else; when
\* errorCallback has returned the loop sleeps, without reading; and only the
\* step that ends the sleep calls readMessages again, on a loop that carries
\* nothing over from the failed iteration.
C11_ReadErrorCallbackSleepRead ==
    [][\A l \in LoopIds :
          /\ (loops[l].pc = "readDone" /\ loops[l].res = "error" /\ ~loops[l].canThrow
                  /\ Moves(l))
                => /\ loops'[l].pc = "inErrorCallback"
                   /\ events' = <<[e |-> "errorCallback", l |-> l, err |-> loops[l].err]>>
          /\ (loops[l].pc = "inErrorCallback" /\ Moves(l) /\ loops'[l].pc # "thrown")
                => /\ loops'[l].pc = "errSleep"
                   /\ events' = <<[e |-> "sleep", l |-> l]>>
          /\ (loops[l].pc = "errSleep" /\ Moves(l) /\ forever)
                => /\ events' = <<[e |-> "readMessages", l |-> l]>>
                   /\ loops'[l].pc \in {"canRead", "readSleep", "readDone"}
                   /\ loops'[l].err = NoError
                   /\ loops'[l].procs = <<>>
          /\ (loops'[l].pc = "errSleep" /\ Moves(l)) => loops[l].pc = "inErrorCallback"
      ]_vars

C11_Witness ==
    \E l \in LoopIds :
        /\ loops[l].pc = "errSleep"
        /\ ~loops[l].canThrow
        /\ loops[l].res = "error"
        /\ loops[l].err = TransportError
        /\ events = <<[e |-> "sleep", l |-> l]>>

\* the error that start has caught, if loop l is where it catches one
Caught(l) ==
    IF loops[l].pc = "readDone" /\ loops[l].res = "error" THEN loops[l].err
    ELSE IF loops[l].pc = "procDone" /\ CurProc(loops[l]).status = "raised"
         THEN CurProc(loops[l]).error
    ELSE NoError

\* C12: with canThrow true, the step that catches the first error of
\* readMessages or processMessage throws it out of start and makes no call
\* (no errorCallback, no sleep, no read); the loop is never in errorCallback or
\* in the error sleep, and once start has thrown the loop does nothing more.
C12_CanThrowEndsLoop ==
    [][\A l \in LoopIds :
          /\ (loops[l].canThrow /\ Caught(l) # NoError /\ Moves(l))
                => /\ loops'[l].pc = "thrown"
                   /\ loops'[l].err = Caught(l)
                   /\ events' = <<>>
          /\ loops'[l].canThrow => loops'[l].pc \notin {"inErrorCallback", "errSleep"}
          /\ loops[l].pc = "thrown" => ~Moves(l)
      ]_vars

C12_Witness ==
    \E l \in LoopIds :
        /\ loops[l].pc = "thrown"
        /\ loops[l].canThrow
        /\ loops[l].err \in {TransportError, CallbackError}

\* C13, as claimed: a call of start with canThrow false is never ended by an
\* error (start never throws).
C13_NoEndByError ==
    \A l \in LoopIds : ~loops[l].canThrow => loops[l].pc # "thrown"

\* C14: when readMessages has returned undefined, the next step of the loop
\* goes to the while condition: it starts no processMessage and calls neither
\* the callback nor errorCallback nor the error sleep, and reads again if the
\* flag is still set.  On an SQS queue the step in which canRead() answers false
\* sends no receive request, and leaves the running flag as it is.
C14_UndefinedReadLoopsAgain ==
    [][\A l \in LoopIds :
          /\ (loops[l].pc = "readDone" /\ loops[l].res = "undefined" /\ Moves(l))
                => /\ loops'[l].procs = <<>>
                   /\ IF forever
                      THEN /\ events' = <<[e |-> "readMessages", l |-> l]>>
                           /\ loops'[l].pc \in {"canRead", "readSleep", "readDone"}
                      ELSE /\ events' = <<>>
                           /\ loops'[l].pc = "done"
          /\ (loops[l].pc = "canRead" /\ Moves(l) /\ loops'[l].res = "undefined")
                => /\ loops'[l].pc = "readDone"
                   /\ loops'[l].err = NoError
                   /\ events' = <<>>
                   /\ forever' = forever
          /\ (\E i \in DOMAIN events' : events'[i] = [e |-> "receive", l |-> l])
                => loops[l].pc = "canRead" /\ loops'[l].pc = "receiving"
      ]_vars

C14_Witness ==
    /\ backend = "sqs"
    /\ forever
    /\ \E l \in LoopIds :
           /\ loops[l].pc = "readDone"
           /\ loops[l].res = "undefined"
           /\ loops[l].procs = <<>>
           /\ events = <<>>

\* C15: on a MemoryQueue, whatever the callback received as (name, params) is
\* what some call of send was given, with the same name and with params that
\* have the keys of the original plus createdAt, the values of the original
\* under every key but createdAt, and under createdAt a reading of the clock
\* taken between the call of send and its return (never the caller's value).
C15_CreatedAtAddedOnSend ==
    /\ \A i \in DOMAIN sent :
           LET body == sent[i].body
               out  == sent[i].updatedBody
           IN  /\ out.name = body.name
               /\ DOMAIN out.params = DOMAIN body.params \cup {"createdAt"}
               /\ \A k \in DOMAIN body.params \ {"createdAt"} :
                      out.params[k] = body.params[k]
               /\ sent[i].invoked <= out.params["createdAt"]
               /\ out.params["createdAt"] <= sent[i].returned
    /\ \A j \in DOMAIN record :
           \E i \in DOMAIN sent :
               record[j] = <<sent[i].updatedBody.name, sent[i].updatedBody.params>>

C15_Witness ==
    \E j \in DOMAIN record :
        /\ "createdAt" \in DOMAIN sent[j].body.params
        /\ record[j][1] = sent[j].body.name
        /\ record[j][2]["createdAt"] # sent[j].body.params["createdAt"]
        /\ sent[j].invoked < record[j][2]["createdAt"]
        /\ record[j][2]["createdAt"] < sent[j].returned

\* the messages that messages.shift() has taken
Shifted == {m \in MsgIds : removed[m]}

\* C16: on a MemoryQueue with one loop whose callback records its arguments and
\* returns, after k iterations that found a message the record holds exactly
\* the first k messages sent, each once and in the order of sending, and the
\* list holds the rest, in order: when all n were processed the list is empty
\* and the record is m1..mn.
C16_RecordIsSentInOrder ==
    LET k == Cardinality(Shifted)
    IN  /\ Shifted = 1..k
        /\ Len(record) = k
        /\ \A j \in DOMAIN record :
               record[j] = <<sent[j].updatedBody.name, sent[j].updatedBody.params>>
        /\ messages = [i \in 1..(Len(sent) - k) |-> k + i]
        /\ \A m \in MsgIds : dispatched[m] <= 1

C16_Witness ==
    /\ Len(sent) = MaxMsgs
    /\ messages = <<>>
    /\ Len(record) = MaxMsgs
    /\ record[1] # record[MaxMsgs]
    /\ loops[1].pc = "readSleep"

\* the calls of start that have not returned or thrown
Live == {l \in LoopIds : loops[l].pc \notin {"idle", "done", "thrown"}}

\* C17, as claimed: after start, stop and resume (in any state of the loop) the
\* queue is as after one fresh start: a single polling loop is executing.
C17_OneLoopAfterResume == Cardinality(Live) <= 1

\* C18, as claimed for send: a rejected SendMessageCommand is observed, by a
\* reaction attached to its promise or by the catch of a polling loop.
C18_SendRejectionObserved ==
    \A i \in DOMAIN sendPromises :
        sendPromises[i].state = "rejected" =>
            \/ sendPromises[i].handled
            \/ \E l \in LoopIds : loops[l].err = TransportError

\* the last call of the scenario was stop: stop has returned, the next resume
\* has not been called
StopReturned == phase > 0 /\ CycleCalls[phase] = "stop"

\* C19: between the return of stop and the next resume isRunning is false,
\* whatever the loops are doing, and a call of isRunning reports the flag and
\* changes nothing.
C19_NotRunningOnceStopped ==
    /\ [](StopReturned => ~isRunning)
    /\ [][(events' # <<>> /\ events'[1].e = "isRunning")
            => /\ events' = <<[e |-> "isRunning", value |-> forever]>>
               /\ (StopReturned => events'[1].value = FALSE)
               /\ UNCHANGED <<backend, forever, loops, nLoops, messages, nextId,
                              dispatched, removed, phase, sendVars>>]_vars

C19_Witness ==
    /\ StopReturned
    /\ events = <<[e |-> "isRunning", value |-> FALSE]>>
    /\ \E l \in LoopIds : loops[l].pc = "errSleep"
    /\ \E l \in LoopIds : loops[l].pc = "inCallback"

\* C20: the running flag is true after construction; a step that clears it is
\* a call of stop (no loop moves, nothing is called, nothing is sent) and a step
\* that sets it again is a call of resume (a new call of start begins): reads,
\* processMessage, send, the error path and the end of start leave it alone.
C20_FlagChangedByStopAndResumeOnly ==
    /\ forever = TRUE
    /\ [][(forever /\ ~forever')
              => /\ loops' = loops
                 /\ events' = <<>>
                 /\ UNCHANGED <<nLoops, messages, nextId, sendVars>>]_vars
    /\ [][(~forever /\ forever')
              => /\ nLoops' = nLoops + 1
                 /\ loops[nLoops'].pc = "idle"
                 /\ loops'[nLoops'].pc # "idle"
                 /\ \A l \in LoopIds \ {nLoops'} : ~Moves(l)
                 /\ UNCHANGED <<messages, nextId, sendVars>>]_vars

C20_Witness ==
    /\ isRunning
    /\ nLoops > 0
    /\ Live = {}
    /\ \E l \in LoopIds : loops[l].pc = "thrown" /\ loops[l].canThrow

-----------------------------------------------------------------------------
(* Properties of the SSE stream *)

\* the strings yielded that are no keep-alive comments
SseData == SelectSeq(sse.out, LAMBDA chunk : chunk # KeepAlive)

\* results of next() that the generator has taken from a race
SseHandled == sse.got - (IF sse.chunk = "settled" THEN 1 ELSE 0)

\* source items that the generator has taken
SseItemsHandled == Min(SseHandled, Len(sse.items))

\* the source has returned or thrown, and the generator has seen it
SseSourceOver == SseHandled = Len(sse.items) + 1

\* the message that stands for a source item
SseMessageFor(item) ==
    IF sse.validate
    THEN IF safeParse(item).success THEN formatSSEMessage(safeParse(item).data)
         ELSE formatSSEMessage(ErrorEvent(StreamItemError))
    ELSE formatSSEMessage(item)

\* C21: the messages of the stream are, one for one and in order, those of the
\* items that the source has yielded so far (followed at most by the error
\* event of a source that threw), the stream that its consumer does not abandon
\* does not end before the source is over, and when the source is done the
\* stream has ended with one message per item.
C21_OneMessagePerItemInOrder ==
    /\ Len(SseData) = SseItemsHandled
                        + (IF SseSourceOver /\ sse.ending = "Error" THEN 1 ELSE 0)
    /\ \A i \in 1..SseItemsHandled : SseData[i] = SseMessageFor(sse.items[i])
    /\ (sse.pc = "ended" /\ ~sse.returned) => SseSourceOver
    /\ (SseSourceOver /\ sse.ending = "done") => sse.pc = "ended"

C21_Witness ==
    /\ sse.pc = "ended"
    /\ ~sse.returned
    /\ sse.ending = "done"
    /\ Len(sse.items) = MaxItems
    /\ sse.items[1] # sse.items[MaxItems]
    /\ Len(SseData) = MaxItems

\* the error events of failed validations among the first n strings of data
RECURSIVE InvalidEvents(_)
InvalidEvents(n) ==
    IF n = 0 THEN 0
    ELSE InvalidEvents(n - 1)
         + (IF SseData[n] = formatSSEMessage(ErrorEvent(StreamItemError)) THEN 1 ELSE 0)

\* the source items that do not fit the schema, among the first n
RECURSIVE InvalidItems(_)
InvalidItems(n) ==
    IF n = 0 THEN 0
    ELSE InvalidItems(n - 1) + (IF safeParse(sse.items[n]).success THEN 0 ELSE 1)

\* the calls of onError made for failed validations
ValidationErrors == SelectSeq(sse.onErrors, LAMBDA e : e = StreamItemError)

\* C22: with validation, an item that does not fit the schema gives one error
\* event in its place and one call of onError, and the generator, when it is
\* read on, asks the source for the next item: unless its consumer abandons
\* it, the stream ends only when the source is over.  Without validation the item is sent as data, and there is neither an
\* error event nor a call of onError for it.
C22_InvalidItemDoesNotEndStream ==
    /\ [](/\ \A i \in 1..SseItemsHandled :
               ~safeParse(sse.items[i]).success =>
                   SseData[i] = IF sse.validate
                                THEN formatSSEMessage(ErrorEvent(StreamItemError))
                                ELSE formatSSEMessage(sse.items[i])
          /\ Len(ValidationErrors) = IF sse.validate THEN InvalidItems(SseItemsHandled) ELSE 0
          /\ InvalidEvents(SseItemsHandled) = Len(ValidationErrors)
          /\ (sse.pc = "ended" /\ ~sse.returned) => SseSourceOver)
    /\ [][(sse.pc = "yieldInvalid" /\ sse' # sse /\ ~sse'.returned)
              => /\ sse'.req = sse.req + 1
                 /\ sse'.pc # "ended"]_vars

C22_Witness ==
    /\ sse.validate
    /\ ~sse.returned
    /\ sse.pc = "ended"
    /\ Len(sse.items) = MaxItems
    /\ ~safeParse(sse.items[1]).success
    /\ safeParse(sse.items[MaxItems]).success
    /\ Len(SseData) = MaxItems
    /\ sse.onErrors = <<StreamItemError>>

\* C23: when the source has thrown after k items and the generator has caught
\* it, the stream holds the messages of the k items, followed by exactly one
\* error event with the message of the error if it is an Error that is no
\* AbortError, and by nothing otherwise; onError got the error, no further
\* next() was called, and the stream ends.
C23_SourceErrorEndsStream ==
    /\ [](SseSourceOver /\ sse.ending # "done" =>
             LET k == Len(sse.items)
             IN  /\ \A i \in 1..k : SseData[i] = SseMessageFor(sse.items[i])
                 /\ IF sse.ending = "Error"
                    THEN /\ Len(SseData) = k + 1
                         /\ SseData[k + 1] = formatSSEMessage(ErrorEvent("Stream exploded!"))
                         /\ sse.pc \in {"yieldCaught", "ended"}
                    ELSE /\ Len(SseData) = k
                         /\ sse.pc = "ended"
                 /\ sse.onErrors # <<>>
                 /\ sse.onErrors[Len(sse.onErrors)] = sse.ending
                 /\ sse.req = k + 1
                 /\ sse.chunk = "none")
    /\ [][(sse.pc = "yieldCaught" /\ sse' # sse /\ sse'.timer = sse.timer)
              => /\ sse'.pc = "ended"
                 /\ sse'.out = sse.out]_vars

C23_Witness ==
    /\ sse.pc = "ended"
    /\ ~sse.returned
    /\ sse.ending = "Error"
    /\ Len(sse.items) = 1
    /\ Len(SseData) = 2
    /\ sse.onErrors = <<"Error">>

\* C27: at most one call of next() is outstanding; a keep-alive timeout that
\* wins the race adds the keep-alive comment and nothing else, and leaves the
\* pending call of next() as it is; and with any keep-alives in between the
\* messages of the stream are those of the items taken, one for one, in order.
C27_KeepAliveReusesPendingNext ==
    /\ [](/\ sse.req - sse.got = (IF sse.chunk = "pending" THEN 1 ELSE 0)
          /\ Len(SseData) >= SseItemsHandled
          /\ \A i \in 1..SseItemsHandled : SseData[i] = SseMessageFor(sse.items[i])
          /\ Len(sse.out) = Len(SseData) + sse.kas)
    /\ [][(sse'.kas # sse.kas)
              => /\ sse.chunk = "pending"
                 /\ sse'.out = Append(sse.out, KeepAlive)
                 /\ sse'.req = sse.req /\ sse'.got = sse.got /\ sse'.chunk = sse.chunk
                 /\ sse'.onErrors = sse.onErrors]_vars
    /\ [][(sse.pc = "yieldKeepAlive" /\ sse' # sse)
              => /\ sse'.req = sse.req
                 /\ sse'.got >= sse.got]_vars

C27_Witness ==
    /\ sse.pc = "ended"
    /\ ~sse.returned
    /\ sse.kas = MaxKeepAlives
    /\ Len(sse.items) = MaxItems
    /\ sse.items[1] # sse.items[MaxItems]
    /\ \E i \in 2..(Len(sse.out) - 1) :
           /\ sse.out[i] = KeepAlive
           /\ sse.out[i - 1] # KeepAlive
           /\ sse.out[i + 1] # KeepAlive

-----------------------------------------------------------------------------
(* Properties of one-env *)

\* what get, getOptional or getAll on an object would do now
GetNow(o, method) ==
    IF o = "loader" THEN loaderGet(env.loader, method) ELSE envGet(env.instance[o], method)

\* the validated values behind an object
ValidatedOf(o) ==
    IF o = "loader" THEN env.loader.validatedEnv ELSE env.instance[o].validatedEnv

\* C24: on an object on which no call of init has returned normally, get,
\* getOptional and getAll raise 'Environment not initialized'; a call that
\* returned a value was made on an object whose init had succeeded; and once
\* an init has succeeded on an object, no step changes its validated values.
C24_ValuesOnlyAfterInit ==
    /\ [](\A o \in EnvObjects \cup {"loader"}, method \in EnvMethods :
             ~env.initOk[o] => GetNow(o, method).threw = NotInitialized)
    /\ [](env.last.threw = "none" /\ env.last.on # "none" => env.initOk[env.last.on])
    /\ [][\A o \in EnvObjects \cup {"loader"} :
              env.initOk[o] => /\ env'.initOk[o]
                               /\ ValidatedOf(o)' = ValidatedOf(o)]_vars

C24_Witness ==
    /\ env.initOk["envA"]
    /\ ~env.initOk["envB"]
    /\ env.last = [on |-> "envA", method |-> "get", threw |-> "none", value |-> "cfgA"]
    /\ env.loader.schema
    /\ ~env.loader.initialized
    /\ GetNow("loader", "getAll").threw = NotInitialized

-----------------------------------------------------------------------------
(* Properties of the message queue of the log transport *)

\* the messages handed to the callback by the first n calls, in order
RECURSIVE Written(_)
Written(n) == IF n = 0 THEN <<>> ELSE Written(n - 1) \o mq.writes[n].messages

\* the pushes so far, in order
RECURSIVE Pushes(_)
Pushes(n) == IF n = 0 THEN <<>> ELSE Append(Pushes(n - 1), n)

\* every bulkWrite that was started has settled
MqQuiet == \A i \in DOMAIN mq.writes : mq.writes[i].state # "pending"

\* C25: the completion callback of a push is invoked at most once, and once
\* every write that was started has settled it has been invoked exactly once
\* for every push, the push that filled the cache and started a write
\* included.
C25_EveryPushCompleted ==
    /\ \A m \in DOMAIN mq.acks : mq.acks[m] <= 1
    /\ MqQuiet => \A m \in 1..mq.pushed : mq.acks[m] = 1

\* C26: the messages handed to the callback so far, followed by those still
\* in the cache, are the pushed messages, each once and in push order; every
\* call of the callback got between 1 and maxMessages messages; the cache
\* stays below maxMessages, and an interval tick hands over all of it.
C26_EveryMessageOnceInOrder ==
    /\ [](mq.created =>
             /\ Written(Len(mq.writes)) \o mq.cache = Pushes(mq.pushed)
             /\ \A i \in DOMAIN mq.writes :
                    /\ Len(mq.writes[i].messages) >= 1
                    /\ Len(mq.writes[i].messages) <= mq.maxMessages
             /\ Len(mq.cache) < mq.maxMessages)
    /\ [][(mq.created /\ mq'.pushed = mq.pushed /\ Len(mq'.writes) = Len(mq.writes) + 1)
              => mq'.cache = <<>>]_vars

C26_Witness ==
    /\ mq.maxMessages = MaxBatchSize
    /\ mq.pushed = MaxBatchSize + 1
    /\ Len(mq.writes) = 2
    /\ mq.writes[1].bufferCallback = MaxBatchSize
    /\ Len(mq.writes[1].messages) = MaxBatchSize
    /\ mq.writes[2].bufferCallback = NoMsg
    /\ mq.writes[2].messages = <<MaxBatchSize + 1>>
    /\ mq.cache = <<>>

-----------------------------------------------------------------------------
(* Properties of the loop: the rest of a batch, start when stopped, the head *)

\* C28: in one iteration the calls of processMessage are for the messages of
\* the batch that was read, and a call that raised an error is the last one:
\* nothing of the batch behind it is passed to the callback or deleted.  With
\* canThrow false the step that catches the error calls errorCallback with it
\* and nothing else, the next one sleeps, and the step that ends the sleep
\* reads again with nothing carried over.
C28_RestOfBatchSkippedOnError ==
    /\ [](\A l \in LoopIds :
             LET lp == loops[l]
             IN  /\ Len(lp.procs) <= Len(lp.batch)
                 /\ \A i \in DOMAIN lp.procs :
                        /\ lp.procs[i].msg = lp.batch[i]
                        /\ lp.procs[i].status = "raised"
                              => /\ i = Len(lp.procs)
                                 /\ lp.pc \in {"procDone", "inErrorCallback", "errSleep"})
    /\ [][\A l \in LoopIds :
              /\ (loops[l].pc = "procDone" /\ CurProc(loops[l]).status = "raised"
                      /\ ~loops[l].canThrow /\ Moves(l))
                    => /\ loops'[l].pc = "inErrorCallback"
                       /\ loops'[l].procs = loops[l].procs
                       /\ events' = <<[e |-> "errorCallback", l |-> l,
                                       err |-> CurProc(loops[l]).error]>>
              /\ (loops[l].pc = "inErrorCallback" /\ loops[l].procs # <<>> /\ Moves(l)
                      /\ loops'[l].pc # "thrown")
                    => /\ loops'[l].pc = "errSleep"
                       /\ loops'[l].procs = loops[l].procs
                       /\ events' = <<[e |-> "sleep", l |-> l]>>
              /\ (loops[l].pc = "errSleep" /\ loops[l].procs # <<>> /\ Moves(l))
                    => /\ loops'[l].procs = <<>>
                       /\ loops'[l].batch = <<>>
                       /\ \/ loops'[l].pc = "done" /\ events' = <<>>
                          \/ events' = <<[e |-> "readMessages", l |-> l]>>
          ]_vars

C28_Witness ==
    \E l \in LoopIds :
        /\ loops[l].pc = "errSleep"
        /\ ~loops[l].canThrow
        /\ Len(loops[l].batch) = 2
        /\ Len(loops[l].procs) = 1
        /\ loops[l].procs[1].status = "raised"

\* C29: a call of start made while the flag is false (no resume: the flag is
\* still false afterwards) returns at once: its loop is done at the while
\* condition, it made no call (no readMessages, callback or errorCallback),
\* and it changed neither the messages nor the loops that exist; a loop that
\* is done does nothing more.
C29_StartWhenStoppedReturns ==
    [][/\ (nLoops' = nLoops + 1 /\ ~forever /\ ~forever')
            => /\ loops'[nLoops'].pc = "done"
               /\ loops'[nLoops'].ended = "none"
               /\ events' = <<>>
               /\ messages' = messages
               /\ dispatched' = dispatched
               /\ removed' = removed
               /\ \A l \in 1..nLoops : loops'[l] = loops[l]
       /\ \A l \in LoopIds : loops[l].pc = "done" => ~Moves(l)
      ]_vars

C29_Witness ==
    /\ ~forever
    /\ messages # <<>>
    /\ \E l \in 1..nLoops :
           /\ loops[l].pc = "done"
           /\ loops[l].ended = "none"
    /\ \A m \in MsgIds : dispatched[m] = 0

\* a call of readMessages is made by loop l in this step
Reads(l) == \E i \in DOMAIN events' : events'[i] = [e |-> "readMessages", l |-> l]

\* C30: on a MemoryQueue, a read leaves the list as it is and returns its head;
\* the list gets shorter only in the step where a callback returns with
\* state.del true, and then by its head; a callback that returns with
\* state.del false, or throws, leaves the list as it is; and a message that is
\* passed to the callback is never one that stands behind the head.
C30_HeadStaysUntilDeleted ==
    [][/\ \A l \in LoopIds :
            /\ (Reads(l) /\ loops[l].pc # "inCallback")
                  => /\ messages' = messages
                     /\ loops'[l].pc = "readDone" => loops'[l].batch = <<messages[1]>>
                     /\ loops'[l].pc = "readDone" <=> messages # <<>>
            /\ (loops[l].pc = "inCallback" /\ Moves(l))
                  => IF CurProc(loops'[l]).callback = "returned" /\ CurProc(loops'[l]).del
                     THEN messages' = (IF messages = <<>> THEN <<>> ELSE Tail(messages))
                     ELSE messages' = messages
       /\ Len(messages') < Len(messages)
            => /\ messages' = Tail(messages)
               /\ \E l \in LoopIds :
                      /\ loops[l].pc = "inCallback"
                      /\ Moves(l)
                      /\ CurProc(loops'[l]).callback = "returned"
                      /\ CurProc(loops'[l]).del
       /\ \A i \in DOMAIN events' :
            events'[i].e = "callback"
                => \A j \in 2..Len(messages) : messages[j] # events'[i].m
      ]_vars

C30_Witness ==
    /\ Len(messages) = 2
    /\ dispatched[messages[1]] = 2
    /\ dispatched[messages[2]] = 0
    /\ \A m \in MsgIds : ~removed[m]
    /\ \E l \in LoopIds :
           /\ loops[l].pc = "inCallback"
           /\ CurProc(loops[l]).msg = messages[1]

====
